---------------------------- MODULE Spec2Model ----------------------------
(***************************************************************************)
(* Model of the synthetic transaction generator of server.js:             *)
(* loadProductPricesFromBuffer (the csv-parser event handlers and the     *)
(* promise they settle), generateRandomUnitsPerMonth, generateData,       *)
(* convertDataToCSV and the month loop of the POST /generate handler.     *)
(*                                                                         *)
(* Numbers.  A JavaScript number that carries decimals (a price, a value) *)
(* is the integer count of millionths (Micro); a monthly volume, which    *)
(* the code rounds to one decimal, is the integer count of tenths.        *)
(* Math.random() is k / RandDen for the k the run's tape gives at the     *)
(* position of the call.                                                   *)
(***************************************************************************)
EXTENDS Integers, Sequences, FiniteSets, TLC

VARIABLES
    headerLine,       \* the column names of the header row of the uploaded buffer
    dataRows,         \* the data rows csv-parser will emit, in order
    supplierId,       \* req.body.supplierId
    specifiedYear,    \* req.body.specifiedYear, the text typed in the form (a sequence of characters)
    tape,             \* the values Math.random() returns, cyclically
    streamPc,         \* the next event of the csv-parser stream
    rowIdx,           \* number of 'data' events emitted so far
    productPrices,    \* the object filled by the 'data' handler
    productKeys,      \* Object.keys(productPrices): own keys in insertion order
    promise,          \* the promise of loadProductPricesFromBuffer
    pc,               \* position of the /generate handler
    rngCalls,         \* number of Math.random() calls made so far
    unitsPerMonth,    \* result of generateRandomUnitsPerMonth()
    month,            \* loop variable of the month loop
    lastUnitsMax,     \* unitsMax of the latest loop iteration, per month
    consolidatedData, \* the accumulating record sequence
    csvCalls,         \* number of convertDataToCSV invocations
    response,         \* what the handler sent back
    call,             \* arguments of a stand-alone call (SpecGen, SpecBound)
    result            \* result of a stand-alone call (SpecGen, SpecBound)

vars == <<headerLine, dataRows, supplierId, specifiedYear, tape, streamPc, rowIdx,
          productPrices, productKeys, promise, pc, rngCalls, unitsPerMonth, month,
          lastUnitsMax, consolidatedData, csvCalls, response, call, result>>

inputVars == <<headerLine, dataRows, supplierId, specifiedYear, tape>>
streamVars == <<streamPc, rowIdx, productPrices, productKeys>>
loopVars == <<rngCalls, unitsPerMonth, month, lastUnitsMax, consolidatedData, csvCalls>>
callVars == <<call, result>>

-----------------------------------------------------------------------------
(* Bounds of the model *)

MaxRows == 2
TapeLen == 2

(* Program constants *)

MinUnitsDefault == 1
MaxUnitsDefault == 15
DefaultBound == 6
NumMonths == 12
ValueDecimals == 3

(* Resolution of the number representation *)

Micro == 1000 * 1000
RandDen == 10 * 100
RandSamples == {0, 35, 500, RandDen - 1}

-----------------------------------------------------------------------------
(* Texts and numbers *)

EmptyMap == [k \in {} |-> 0]

Pow10(n) == IF n = 0 THEN 1 ELSE IF n = 1 THEN 10 ELSE IF n = 2 THEN 100
            ELSE IF n = 3 THEN 1000 ELSE IF n = 4 THEN 10000
            ELSE IF n = 5 THEN 100000 ELSE Micro

DigitVal(c) ==
    CASE c = "0" -> 0 [] c = "1" -> 1 [] c = "2" -> 2 [] c = "3" -> 3 [] c = "4" -> 4
      [] c = "5" -> 5 [] c = "6" -> 6 [] c = "7" -> 7 [] c = "8" -> 8 [] c = "9" -> 9

RECURSIVE DigitsValue(_)
DigitsValue(s) ==
    IF s = <<>> THEN 0
    ELSE 10 * DigitsValue(SubSeq(s, 1, Len(s) - 1)) + DigitVal(s[Len(s)])

\* parseInt(text) of a text of decimal digits
ParseInt(s) == DigitsValue(s)

\* parseFloat(text) of a decimal text "ddd" or "ddd.ddd", in millionths
ParseFloat(s) ==
    LET dots == {i \in 1..Len(s) : s[i] = "."}
        dot  == IF dots = {} THEN Len(s) + 1 ELSE CHOOSE i \in dots : TRUE
        int  == SubSeq(s, 1, dot - 1)
        frac == SubSeq(s, dot + 1, Len(s))
    IN  DigitsValue(int) * Micro + DigitsValue(frac) * (Micro \div Pow10(Len(frac)))

\* The integer nearest to num / den (num >= 0, den > 0), halves upwards
RoundRatio(num, den) == (2 * num + den) \div (2 * den)

\* x.toFixed(d) read back by parseFloat, for x >= 0 in millionths: the nearest
\* multiple of 10^-d, halves away from zero
ToFixed(x, d) ==
    LET unit == Micro \div Pow10(d)
    IN  RoundRatio(x, unit) * unit

\* n.toString().padStart(2, '0') for n >= 0
PadStart2(n) == IF n < 10 THEN "0" \o ToString(n) ELSE ToString(n)

\* String(x) of a number x >= 0 in millionths that is a multiple of 10^-3
NumberToString(x) ==
    LET int    == x \div Micro
        thou   == (x % Micro) \div 1000
        d1     == thou \div 100
        d2     == (thou \div 10) % 10
        d3     == thou % 10
    IN  IF thou = 0 THEN ToString(int)
        ELSE IF d3 # 0 THEN ToString(int) \o "." \o ToString(d1) \o ToString(d2) \o ToString(d3)
        ELSE IF d2 # 0 THEN ToString(int) \o "." \o ToString(d1) \o ToString(d2)
        ELSE ToString(int) \o "." \o ToString(d1)

\* Math.random() at call number n (0-based), as a numerator over RandDen
Random(n) == tape[(n % Len(tape)) + 1]

-----------------------------------------------------------------------------
(* The promise of loadProductPricesFromBuffer *)

Pending == [state |-> "pending", reason |-> "", missing |-> <<>>]

\* Variant: a later resolve or reject replaces the settlement
SettleLast(p, outcome) == outcome

\* resolve(value) / reject(error): only the first settlement of a promise counts
Settle(p, outcome) == IF p.state = "pending" THEN outcome ELSE p

MissingColumns(missing) ==
    [state |-> "rejected", reason |-> "MissingColumns", missing |-> missing]
EmptyCatalog == [state |-> "rejected", reason |-> "EmptyCatalog", missing |-> <<>>]
Fulfilled == [state |-> "fulfilled", reason |-> "", missing |-> <<>>]

RequiredHeaders == <<"ProductID", "Price">>

\* requiredHeaders.filter(header => !headers.includes(header))
MissingHeaders(headers) ==
    SelectSeq(RequiredHeaders, LAMBDA h : h \notin headers)

\* !row.ProductID || !row.Price : a cell is falsy when absent or the empty text
\* (a ProductID cell is a string, a Price cell a sequence of characters)
SkipRow(row) ==
    \/ "ProductID" \notin DOMAIN row
    \/ row.ProductID = ""
    \/ "Price" \notin DOMAIN row
    \/ row.Price = <<>>

\* productPrices[id] = price on a plain object {}: the key "__proto__" reaches the
\* setter of Object.prototype, which ignores a number, so no own property appears
AssignPrice(prices, id, price) ==
    IF id = "__proto__" THEN prices
    ELSE [k \in DOMAIN prices \cup {id} |-> IF k = id THEN price ELSE prices[k]]

\* Object.keys(productPrices) after the assignment: a new own key goes last (the
\* ProductIDs of the model are not integer-like, which the engine would list first)
AssignKey(keys, prices, id) ==
    IF id = "__proto__" \/ id \in DOMAIN prices THEN keys ELSE Append(keys, id)


-----------------------------------------------------------------------------
(* The JavaScript Date of local midnight, as [y, m, d] with m 0-based *)

IsLeap(y) == (y % 4 = 0 /\ y % 100 # 0) \/ y % 400 = 0

DaysIn(y, m) ==
    IF m = 1 THEN (IF IsLeap(y) THEN 29 ELSE 28)
    ELSE IF m \in {3, 5, 8, 10} THEN 30 ELSE 31

\* MakeDay: a day number outside the month rolls into the neighbouring months
RECURSIVE MakeDay(_, _, _)
MakeDay(y, m, d) ==
    IF d < 1 THEN
        LET py == IF m = 0 THEN y - 1 ELSE y
            pm == IF m = 0 THEN 11 ELSE m - 1
        IN  MakeDay(py, pm, d + DaysIn(py, pm))
    ELSE IF d > DaysIn(y, m) THEN
        LET ny == IF m = 11 THEN y + 1 ELSE y
            nm == IF m = 11 THEN 0 ELSE m + 1
        IN  MakeDay(ny, nm, d - DaysIn(y, m))
    ELSE [y |-> y, m |-> m, d |-> d]

\* new Date(year, monthIndex, day): a year of 0..99 means 1900 + year, and a
\* monthIndex of 12 is January of the next year
NewDate(year, monthIndex, day) ==
    LET fullYear == IF year \in 0..99 THEN 1900 + year ELSE year
    IN  MakeDay(fullYear + (monthIndex \div 12), monthIndex % 12, day)

\* date.setDate(day)
SetDate(date, day) == MakeDay(date.y, date.m, day)

\* date.toLocaleDateString('en-GB'): dd/mm/yyyy (years of four digits)
ToLocaleDateString(date) ==
    PadStart2(date.d) \o "/" \o PadStart2(date.m + 1) \o "/" \o ToString(date.y)

-----------------------------------------------------------------------------
(* getMonthAbbreviation and generateRandomUnitsPerMonth *)

MonthAbbreviations ==
    <<"jan", "feb", "mar", "apr", "may", "jun",
      "jul", "aug", "sep", "oct", "nov", "dec">>

getMonthAbbreviation(monthNumber) == MonthAbbreviations[monthNumber]

\* parseFloat((Math.random() * (maxUnits - minUnits) + minUnits).toFixed(1)), in
\* tenths (toFixed(1)); minUnits and maxUnits are given in tenths, r is a numerator
\* over RandDen
RandomUnits(r, minUnits, maxUnits) ==
    RoundRatio(r * (maxUnits - minUnits) + minUnits * RandDen, RandDen)

\* generateRandomUnitsPerMonth(minUnits, maxUnits, precision = 1): one draw per
\* month, in month order, from call number rng0 on
generateRandomUnitsPerMonth(minUnits, maxUnits, rng0) ==
    [abbr \in {getMonthAbbreviation(m) : m \in 1..NumMonths} |->
        LET m == CHOOSE n \in 1..NumMonths : getMonthAbbreviation(n) = abbr
        IN  RandomUnits(Random(rng0 + m - 1), minUnits, maxUnits)]

\* Variant: `??` in place of `||`, so that only an absent entry falls back
UnitsMaxNullish(upm, abbr) ==
    IF abbr \notin DOMAIN upm THEN DefaultBound ELSE upm[abbr] \div 10

\* Math.floor(unitsPerMonth[monthNameAbbr] || 6), the entry in tenths: an absent
\* entry (undefined) and 0 are falsy
UnitsMax(upm, abbr) ==
    IF abbr \notin DOMAIN upm \/ upm[abbr] = 0 THEN DefaultBound
    ELSE upm[abbr] \div 10

-----------------------------------------------------------------------------
(* generateData *)

branches ==
    <<"ABG", "ALB", "AUK", "BAL", "BLM", "BAY", "BRN", "BRI",
      "BUN", "CAM", "CBR", "CAN", "CHT", "CHR", "COB", "COF",
      "DAR", "DUB", "ESS", "FRK", "GEE", "GLF", "GLC", "HAM",
      "HOB", "HOR", "INV", "JOO", "KEW", "LAU", "LOG", "MAN",
      "MAI", "MRO", "MEL", "NPL", "NCL", "NOR", "NSH", "ORA",
      "PER", "PAK", "PAD", "QUE", "ROC", "SRH", "SUN", "TAM",
      "TOW", "WAG", "WAR", "WEL", "WER", "WOL", "YAR", "YEO">>

\* Variant: the month left out of the key
ReferenceKeyNoMonth(supplier, kind, mon, year, i) ==
    supplier \o "-" \o kind \o "-" \o ToString(year) \o "-" \o ToString(i + 1)

\* `${supplierId}-PRI-${monthStr}-${year}-${i + 1}` (kind "PRI" or "INV")
ReferenceKey(supplier, kind, mon, year, i) ==
    supplier \o "-" \o kind \o "-" \o PadStart2(mon) \o "-" \o ToString(year)
        \o "-" \o ToString(i + 1)

\* Variant: Math.ceil in place of Math.floor
DrawUnitsCeil(r, unitsMax) == (r * unitsMax + RandDen - 1) \div RandDen + 1

\* Math.floor(Math.random() * unitsMax) + 1
DrawUnits(r, unitsMax) == (r * unitsMax) \div RandDen + 1

\* branches[Math.floor(Math.random() * branches.length)]
DrawBranch(r) == branches[(r * Len(branches)) \div RandDen + 1]

\* Variant: toFixed(2)
ComputeValueTwoDecimals(units, pricePerUnit) == ToFixed(units * pricePerUnit, 2)

\* parseFloat((units * pricePerUnit).toFixed(3))
ComputeValue(units, pricePerUnit) == ToFixed(units * pricePerUnit, ValueDecimals)

\* The date of record i: startDate advanced by i % numDaysInMonth days
RecordDate(year, mon, i) ==
    LET numDaysInMonth == NewDate(year, mon, 0).d
        startDate == NewDate(year, mon - 1, 1)
        dayOffset == i % numDaysInMonth
    IN  SetDate(startDate, startDate.d + dayOffset)

\* One iteration of the loop of generateData: the record pushed for index i, the
\* two Math.random() calls of the iteration being numbers rng0 + 2i and rng0 + 2i + 1
MakeRecord(i, year, mon, unitsMax, productIds, totalProducts, prices, supplier, rng0) ==
    LET productId == productIds[(i % totalProducts) + 1]
        branch == DrawBranch(Random(rng0 + 2 * i))
        units == DrawUnits(Random(rng0 + 2 * i + 1), unitsMax)
        value == ComputeValue(units, prices[productId])
    IN  ("Date" :> ToLocaleDateString(RecordDate(year, mon, i)))
        @@ ("Supplier" :> supplier)
        @@ ("Branch" :> branch)
        @@ ("Invoice status" :> "Paid")
        @@ ("Product" :> productId)
        @@ ("Transaction Type" :> "Purchase")
        @@ ("Units" :> units)
        @@ ("Value" :> value)
        @@ ("Currency" :> "AUD")
        @@ ("External Reference" :> "")
        @@ ("Interface Date" :> "")
        @@ ("Primary Key" :> ReferenceKey(supplier, "PRI", mon, year, i))
        @@ ("Agreement ID" :> "")
        @@ ("Advised Earnings" :> "")
        @@ ("Order Reference" :> "")
        @@ ("Delivery Reference" :> "")
        @@ ("Invoice Reference" :> ReferenceKey(supplier, "INV", mon, year, i))

\* Variant: the loop stops one record early (i < numRecords - 1)
generateDataShort(numRecords, year, mon, unitsMax, productIds, totalProducts, prices, supplier, rng0) ==
    [n \in 1..(numRecords - 1) |->
        MakeRecord(n - 1, year, mon, unitsMax, productIds, totalProducts, prices,
                   supplier, rng0)]

\* generateData(numRecords, year, month, unitsMax, productIds, totalProducts,
\*              productPrices, supplierId)
generateData(numRecords, year, mon, unitsMax, productIds, totalProducts, prices, supplier, rng0) ==
    [n \in 1..numRecords |->
        MakeRecord(n - 1, year, mon, unitsMax, productIds, totalProducts, prices,
                   supplier, rng0)]

-----------------------------------------------------------------------------
(* convertDataToCSV *)

CsvHeaders ==
    <<"Date", "Supplier", "Branch", "Invoice status", "Product",
      "Transaction Type", "Units", "Value", "Currency",
      "External Reference", "Interface Date", "Primary Key",
      "Agreement ID", "Advised Earnings", "Order Reference",
      "Delivery Reference", "Invoice Reference">>

\* `"${row[field] || ''}"`: 0 and the empty string are falsy, a number is
\* written by String()
QuoteField(row, field) ==
    LET v == row[field]
        text == IF field = "Units" THEN (IF v = 0 THEN "" ELSE ToString(v))
                ELSE IF field = "Value" THEN (IF v = 0 THEN "" ELSE NumberToString(v))
                ELSE v
    IN  "\"" \o text \o "\""

\* Variant: the header row left out
convertDataToCSVNoHeader(data) ==
    [n \in 1..Len(data) |-> [f \in 1..Len(CsvHeaders) |-> QuoteField(data[n], CsvHeaders[f])]]

\* The lines of the text convertDataToCSV returns (csvRows before the join by
\* "\n"), each line given by its fields (the line before the join by ",")
convertDataToCSV(data) ==
    <<CsvHeaders>> \o
    [n \in 1..Len(data) |-> [f \in 1..Len(CsvHeaders) |-> QuoteField(data[n], CsvHeaders[f])]]


-----------------------------------------------------------------------------
(* Inputs *)

IdCells == {"", "P1", "P2", "__proto__"}
PriceCells == {<<>>, <<"1", "0", ".", "0", "0">>, <<"5", ".", "5", "0">>}

HeaderLines == {{"ProductID", "Price"}, {"ProductID", "Name"}, {"Name", "Price"}, {"Name"}}

\* The rows csv-parser can emit under a header: a cell of a column of the header
\* is absent (a short line), empty or filled; other columns are not read
RowsOf(header) ==
    {<<>>}
    \cup (IF "ProductID" \in header THEN {[ProductID |-> i] : i \in IdCells} ELSE {})
    \cup (IF "Price" \in header THEN {[Price |-> c] : c \in PriceCells} ELSE {})
    \cup (IF {"ProductID", "Price"} \subseteq header
          THEN {[ProductID |-> i, Price |-> c] : i \in IdCells, c \in PriceCells}
          ELSE {})

SeqsUpTo(S, n) == UNION {[1..k -> S] : k \in 0..n}

ConstantTape(r) == [i \in 1..TapeLen |-> r]
Tapes == [1..TapeLen -> RandSamples]

Years == {<<"2", "0", "2", "4">>, <<"2", "0", "2", "3">>, <<"1", "9", "0", "0">>, <<"2", "4">>}

Row(id, price) == [ProductID |-> id, Price |-> price]

\* Catalogs of one and two products, among them the one of the scenario
\* {"P1": 10.00, "P2": 5.50}
Catalogs ==
    {<<Row("P1", <<"1", "0", ".", "0", "0">>), Row("P2", <<"5", ".", "5", "0">>)>>,
     <<Row("P1", <<"1", ".", "0", "0", "5">>)>>,
     <<Row("P2", <<"0", ".", "1", "2", "3", "4">>), Row("P1", <<"0">>)>>}

\* Uploads of every shape, under one tape and year
ParseInputs ==
    {[header |-> h, rows |-> rs, supplier |-> "SUP1", year |-> <<"2", "0", "2", "4">>,
      tape |-> ConstantTape(500)] :
        h \in HeaderLines, rs \in SeqsUpTo(RowsOf({"ProductID", "Price"}), MaxRows)}

\* Valid catalogs, under every tape and year
RunInputs ==
    {[header |-> {"ProductID", "Price"}, rows |-> rs, supplier |-> "SUP1", year |-> y,
      tape |-> t] : rs \in Catalogs, y \in Years, t \in Tapes}

NoResponse == [kind |-> "none", error |-> Pending, lines |-> <<>>]
NoCall == [name |-> "none"]

-----------------------------------------------------------------------------
(* The pipeline: POST /generate *)

Init ==
    /\ \E in \in {i \in ParseInputs : \A n \in 1..Len(i.rows) : i.rows[n] \in RowsOf(i.header)}
                 \cup RunInputs :
        /\ headerLine = in.header
        /\ dataRows = in.rows
        /\ supplierId = in.supplier
        /\ specifiedYear = in.year
        /\ tape = in.tape
    /\ streamPc = "headers"
    /\ rowIdx = 0
    /\ productPrices = EmptyMap
    /\ productKeys = <<>>
    /\ promise = Pending
    /\ pc = "await"
    /\ rngCalls = 0
    /\ unitsPerMonth = EmptyMap
    /\ month = 0
    /\ lastUnitsMax = EmptyMap
    /\ consolidatedData = <<>>
    /\ csvCalls = 0
    /\ response = NoResponse
    /\ call = NoCall
    /\ result = <<>>

\* .on('headers', ...)
OnHeaders ==
    /\ streamPc = "headers"
    /\ LET missingHeaders == MissingHeaders(headerLine)
       IN  promise' = IF Len(missingHeaders) > 0
                      THEN Settle(promise, MissingColumns(missingHeaders))
                      ELSE promise
    /\ streamPc' = "data"
    /\ UNCHANGED <<inputVars, rowIdx, productPrices, productKeys, pc, loopVars,
                   response, callVars>>

\* .on('data', ...)
OnData ==
    /\ streamPc = "data"
    /\ rowIdx < Len(dataRows)
    /\ LET row == dataRows[rowIdx + 1]
       IN  IF SkipRow(row)
           THEN UNCHANGED <<productPrices, productKeys>>
           ELSE /\ productPrices' = AssignPrice(productPrices, row.ProductID,
                                                ParseFloat(row.Price))
                /\ productKeys' = AssignKey(productKeys, productPrices, row.ProductID)
    /\ rowIdx' = rowIdx + 1
    /\ UNCHANGED <<inputVars, streamPc, promise, pc, loopVars, response, callVars>>

\* Variant: 'end' resolves whatever was collected
OnEndResolve ==
    /\ streamPc = "data"
    /\ rowIdx = Len(dataRows)
    /\ promise' = Settle(promise, Fulfilled)
    /\ streamPc' = "closed"
    /\ UNCHANGED <<inputVars, rowIdx, productPrices, productKeys, pc, loopVars,
                   response, callVars>>

\* .on('end', ...)
OnEnd ==
    /\ streamPc = "data"
    /\ rowIdx = Len(dataRows)
    /\ promise' = IF Len(productKeys) = 0
                  THEN Settle(promise, EmptyCatalog)
                  ELSE Settle(promise, Fulfilled)
    /\ streamPc' = "closed"
    /\ UNCHANGED <<inputVars, rowIdx, productPrices, productKeys, pc, loopVars,
                   response, callVars>>

\* The handler resumes from `await loadProductPricesFromBuffer(...)`: a rejection
\* goes to the catch block, which renders the error
AwaitSettled ==
    /\ pc = "await"
    /\ promise.state # "pending"
    /\ IF promise.state = "rejected"
       THEN /\ response' = [kind |-> "error", error |-> promise, lines |-> <<>>]
            /\ pc' = "done"
       ELSE /\ response' = response
            /\ pc' = "volumes"
    /\ UNCHANGED <<inputVars, streamVars, promise, loopVars, callVars>>

\* const unitsPerMonth = generateRandomUnitsPerMonth(); const consolidatedData = []
DrawVolumes ==
    /\ pc = "volumes"
    /\ unitsPerMonth' = generateRandomUnitsPerMonth(10 * MinUnitsDefault,
                                                    10 * MaxUnitsDefault, rngCalls)
    /\ rngCalls' = rngCalls + NumMonths
    /\ consolidatedData' = <<>>
    /\ month' = 1
    /\ pc' = "months"
    /\ UNCHANGED <<inputVars, streamVars, promise, lastUnitsMax, csvCalls, response,
                   callVars>>

\* One iteration of `for (let month = 1; month <= 12; month++)`
MonthStep ==
    /\ pc = "months"
    /\ month <= NumMonths
    /\ LET productIds == productKeys
           totalProducts == Len(productIds)
           unitsMax == UnitsMax(unitsPerMonth, getMonthAbbreviation(month))
           sampleData == generateData(totalProducts, ParseInt(specifiedYear), month,
                                      unitsMax, productIds, totalProducts,
                                      productPrices, supplierId, rngCalls)
       IN  /\ consolidatedData' = consolidatedData \o sampleData
           /\ lastUnitsMax' = (month :> unitsMax) @@ lastUnitsMax
           /\ rngCalls' = rngCalls + 2 * totalProducts
    /\ month' = month + 1
    /\ UNCHANGED <<inputVars, streamVars, promise, pc, unitsPerMonth, csvCalls,
                   response, callVars>>

\* After the loop: convertDataToCSV(consolidatedData), piped to the response
SendCsv ==
    /\ pc = "months"
    /\ month > NumMonths
    /\ response' = [kind |-> "csv", error |-> Pending,
                    lines |-> convertDataToCSV(consolidatedData)]
    /\ csvCalls' = csvCalls + 1
    /\ pc' = "done"
    /\ UNCHANGED <<inputVars, streamVars, promise, rngCalls, unitsPerMonth, month,
                   lastUnitsMax, consolidatedData, callVars>>

Next ==
    \/ OnHeaders
    \/ OnData
    \/ OnEnd
    \/ AwaitSettled
    \/ DrawVolumes
    \/ MonthStep
    \/ SendCsv

Spec == Init /\ [][Next]_vars


-----------------------------------------------------------------------------
(* generateData called on its own: any record count, year, month and bound *)

GenCounts == {1, 2, 28, 31, 32, 35}
GenYears == {2023, 2024, 1900, 24}
GenBounds == {1, DefaultBound, MaxUnitsDefault}
GenPrices == [P1 |-> 10 * Micro, P2 |-> 5 * Micro + Micro \div 2]

Idle ==
    /\ headerLine = {}
    /\ dataRows = <<>>
    /\ supplierId = "SUP1"
    /\ specifiedYear = <<>>
    /\ streamPc = "closed"
    /\ rowIdx = 0
    /\ productPrices = EmptyMap
    /\ productKeys = <<>>
    /\ promise = Pending
    /\ rngCalls = 0
    /\ unitsPerMonth = EmptyMap
    /\ month = 0
    /\ lastUnitsMax = EmptyMap
    /\ consolidatedData = <<>>
    /\ csvCalls = 0
    /\ response = NoResponse
    /\ result = <<>>

InitGen ==
    /\ Idle
    /\ pc = "call"
    /\ tape \in {ConstantTape(0), ConstantTape(RandDen - 1)}
    /\ \E n \in GenCounts, y \in GenYears, m \in 1..NumMonths, u \in GenBounds :
        call = [name |-> "generateData", numRecords |-> n, year |-> y, month |-> m,
                unitsMax |-> u, productIds |-> <<"P1", "P2">>, totalProducts |-> 2,
                productPrices |-> GenPrices, supplierId |-> supplierId]

CallGenerateData ==
    /\ pc = "call"
    /\ call.name = "generateData"
    /\ result' = generateData(call.numRecords, call.year, call.month, call.unitsMax,
                              call.productIds, call.totalProducts, call.productPrices,
                              call.supplierId, rngCalls)
    /\ pc' = "returned"
    /\ UNCHANGED <<inputVars, streamVars, promise, loopVars, response, call>>

NextGen == CallGenerateData

SpecGen == InitGen /\ [][NextGen]_vars

-----------------------------------------------------------------------------
(* generateRandomUnitsPerMonth called with any range, and the bound the month  *)
(* loop takes from each of its entries                                          *)

BoundMins == {0, 5, 10 * MinUnitsDefault}
BoundMaxs == {10, 10 * MaxUnitsDefault}

InitBound ==
    /\ Idle
    /\ pc = "call"
    /\ tape \in Tapes
    /\ \E lo \in BoundMins, hi \in BoundMaxs :
        call = [name |-> "generateRandomUnitsPerMonth", minUnits |-> lo, maxUnits |-> hi]

CallRandomUnits ==
    /\ pc = "call"
    /\ call.name = "generateRandomUnitsPerMonth"
    /\ unitsPerMonth' = generateRandomUnitsPerMonth(call.minUnits, call.maxUnits, rngCalls)
    /\ rngCalls' = rngCalls + NumMonths
    /\ month' = 1
    /\ pc' = "months"
    /\ UNCHANGED <<inputVars, streamVars, promise, lastUnitsMax, consolidatedData,
                   csvCalls, response, callVars>>

\* const unitsMax = Math.floor(unitsPerMonth[monthNameAbbr] || 6), month by month
BoundStep ==
    /\ pc = "months"
    /\ month <= NumMonths
    /\ lastUnitsMax' =
           (month :> UnitsMax(unitsPerMonth, getMonthAbbreviation(month))) @@ lastUnitsMax
    /\ month' = month + 1
    /\ UNCHANGED <<inputVars, streamVars, promise, pc, rngCalls, unitsPerMonth,
                   consolidatedData, csvCalls, response, callVars>>

NextBound ==
    \/ CallRandomUnits
    \/ BoundStep

SpecBound == InitBound /\ [][NextBound]_vars


-----------------------------------------------------------------------------
(* Properties *)

\* The catalog size and the year of the run
CatalogSize == Len(productKeys)
RunYear == ParseInt(specifiedYear)

\* Months whose records are in consolidatedData
MonthsDone == IF month = 0 THEN 0 ELSE month - 1

\* The record with 1-based index n of month m
RecordAt(m, n) == consolidatedData[(m - 1) * CatalogSize + n]

MonthText == <<"01", "02", "03", "04", "05", "06", "07", "08", "09", "10", "11", "12">>

\* {supplierId}-PRI-{MM}-{year}-{n}, written out
KeyText(kind, m, n) ==
    supplierId \o "-" \o kind \o "-" \o MonthText[m] \o "-" \o ToString(RunYear)
        \o "-" \o ToString(n)

\* The data rows whose ProductID and Price cells are both present and non-empty
ValidRows ==
    {n \in 1..Len(dataRows) :
        /\ {"ProductID", "Price"} \subseteq DOMAIN dataRows[n]
        /\ dataRows[n].ProductID # ""
        /\ dataRows[n].Price # <<>>}

AbsentColumns == {"ProductID", "Price"} \ headerLine

\* C1: a run over a catalog of N products holds N records per finished month, each
\* product of the catalog being the Product of exactly one record of the month, and
\* the text is sent only once all 12 months, 12 x N records, are there.
C1_RecordsPerMonth ==
    /\ Len(consolidatedData) = MonthsDone * CatalogSize
    /\ promise.state = "fulfilled" => CatalogSize = Cardinality(DOMAIN productPrices)
    /\ \A m \in 1..MonthsDone : \A p \in DOMAIN productPrices :
          Cardinality({n \in 1..CatalogSize : RecordAt(m, n)["Product"] = p}) = 1
    /\ response.kind = "csv" =>
          /\ MonthsDone = NumMonths
          /\ Len(consolidatedData) = 12 * Cardinality(DOMAIN productPrices)

C1_Witness ==
    /\ response.kind = "csv"
    /\ Cardinality(DOMAIN productPrices) = 2
    /\ Len(consolidatedData) = 24

\* C2: in the records of a run no two share a Primary Key and no two share an
\* Invoice Reference; the record with 1-based index n of month MM carries
\* {supplierId}-PRI-{MM}-{year}-{n} and {supplierId}-INV-{MM}-{year}-{n}.
C2_KeysUnique ==
    /\ \A j, k \in 1..Len(consolidatedData) :
          j # k =>
            /\ consolidatedData[j]["Primary Key"] # consolidatedData[k]["Primary Key"]
            /\ consolidatedData[j]["Invoice Reference"]
                 # consolidatedData[k]["Invoice Reference"]
    /\ \A m \in 1..MonthsDone : \A n \in 1..CatalogSize :
          /\ RecordAt(m, n)["Primary Key"] = KeyText("PRI", m, n)
          /\ RecordAt(m, n)["Invoice Reference"] = KeyText("INV", m, n)

C2_Witness ==
    /\ MonthsDone = NumMonths
    /\ CatalogSize = 2
    /\ consolidatedData[24]["Primary Key"] = "SUP1-PRI-12-2023-2"
    /\ consolidatedData[3]["Invoice Reference"] = "SUP1-INV-02-2023-1"

\* C3: the volume drawn for each month lies in [1.0, 15.0], the bound handed to
\* generateData is its floor, and every record's Units is an integer from 1 to the
\* floor of the volume of the record's month.
C3_UnitsWithinBound ==
    /\ \A a \in DOMAIN unitsPerMonth :
          unitsPerMonth[a] \in (10 * MinUnitsDefault)..(10 * MaxUnitsDefault)
    /\ \A m \in DOMAIN lastUnitsMax :
          /\ 10 * lastUnitsMax[m] <= unitsPerMonth[MonthAbbreviations[m]]
          /\ unitsPerMonth[MonthAbbreviations[m]] < 10 * (lastUnitsMax[m] + 1)
    /\ \A m \in 1..MonthsDone : \A n \in 1..CatalogSize :
          /\ RecordAt(m, n)["Units"] \in Int
          /\ 1 <= RecordAt(m, n)["Units"]
          /\ 10 * RecordAt(m, n)["Units"] <= unitsPerMonth[MonthAbbreviations[m]]

C3_Witness ==
    /\ MonthsDone = NumMonths
    /\ \E m \in 1..NumMonths :
          /\ unitsPerMonth[MonthAbbreviations[m]] = 10 * MaxUnitsDefault
          /\ RecordAt(m, 1)["Units"] = MaxUnitsDefault
    /\ \E m \in 1..NumMonths :
          /\ unitsPerMonth[MonthAbbreviations[m]] = 15
          /\ RecordAt(m, 1)["Units"] = 1

\* C4: every record's Value is Units x price(Product) rounded to 3 decimals: a
\* multiple of 0.001 at most 0.0005 away from the product, the product itself when
\* the price has at most 3 decimals.
C4_ValueRounded ==
    \A k \in 1..Len(consolidatedData) :
        LET rec == consolidatedData[k]
            exact == rec["Units"] * productPrices[rec["Product"]]
        IN  /\ rec["Value"] % 1000 = 0
            /\ 2 * (rec["Value"] - exact) <= 1000
            /\ 2 * (exact - rec["Value"]) < 1000
            /\ productPrices[rec["Product"]] % 1000 = 0 => rec["Value"] = exact

C4_Witness ==
    /\ response.kind = "csv"
    /\ \E k \in 1..Len(consolidatedData) :
          /\ consolidatedData[k]["Units"] = 8
          /\ productPrices[consolidatedData[k]["Product"]] = 123400
          /\ consolidatedData[k]["Value"] = 987000

\* C5: once the header row has been read and lacks ProductID or Price, the parse
\* is rejected with MissingColumns naming exactly the absent columns, and stays so
\* through every later 'data' and 'end' event; the handler generates nothing and
\* answers with that error.
C5_MissingColumnsFinal ==
    (AbsentColumns # {} /\ streamPc # "headers") =>
        /\ promise.state = "rejected"
        /\ promise.reason = "MissingColumns"
        /\ {promise.missing[i] : i \in 1..Len(promise.missing)} = AbsentColumns
        /\ Len(promise.missing) = Cardinality(AbsentColumns)
        /\ pc \in {"await", "done"}
        /\ consolidatedData = <<>>
        /\ pc = "done" =>
              /\ response.kind = "error"
              /\ response.error.reason = "MissingColumns"
              /\ response.error.missing = promise.missing

C5_Witness ==
    /\ headerLine = {"ProductID", "Name"}
    /\ Len(dataRows) = 2
    /\ dataRows[1] = [ProductID |-> "P1"]
    /\ streamPc = "closed"
    /\ promise.missing = <<"Price">>
    /\ response.kind = "error"

\* C6: a fulfilled parse has at least one entry; under a header with both columns,
\* when no data row has both cells non-empty the parse ends rejected with
\* EmptyCatalog and the handler answers with that error without generating a record.
C6_NeverEmptyCatalog ==
    /\ promise.state = "fulfilled" =>
          /\ Cardinality(DOMAIN productPrices) >= 1
          /\ streamPc = "closed"
    /\ pc \in {"volumes", "months"} \/ response.kind = "csv" =>
          Cardinality(DOMAIN productPrices) >= 1
    /\ (AbsentColumns = {} /\ ValidRows = {} /\ streamPc = "closed") =>
          /\ promise.state = "rejected"
          /\ promise.reason = "EmptyCatalog"
          /\ pc \in {"await", "done"}
          /\ consolidatedData = <<>>
          /\ unitsPerMonth = EmptyMap
          /\ pc = "done" =>
                /\ response.kind = "error"
                /\ response.error.reason = "EmptyCatalog"

C6_Witness ==
    /\ AbsentColumns = {}
    /\ Len(dataRows) = 2
    /\ dataRows[1] = [ProductID |-> "P1", Price |-> <<>>]
    /\ dataRows[2] = [Price |-> <<"5", ".", "5", "0">>]
    /\ pc = "done"
    /\ response.error.reason = "EmptyCatalog"

\* The price the last valid row with ProductID id gives
LastPrice(id) ==
    LET last == CHOOSE n \in ValidRows :
                    /\ dataRows[n].ProductID = id
                    /\ \A k \in ValidRows : dataRows[k].ProductID = id => k <= n
    IN  ParseFloat(dataRows[last].Price)

\* C7: the mapping of a fulfilled parse has as keys exactly the ProductIDs of the
\* rows whose ProductID and Price cells are both non-empty, each with the parsed
\* Price of the last such row.
C7_MappingOfValidRows ==
    promise.state = "fulfilled" =>
        /\ DOMAIN productPrices = {dataRows[n].ProductID : n \in ValidRows}
        /\ \A id \in DOMAIN productPrices : productPrices[id] = LastPrice(id)

\* C7 for the uploads in which no valid row has the ProductID "__proto__"
C7_MappingOfValidRowsOwnKeys ==
    (promise.state = "fulfilled" /\ \A n \in ValidRows : dataRows[n].ProductID # "__proto__") =>
        /\ DOMAIN productPrices = {dataRows[n].ProductID : n \in ValidRows}
        /\ \A id \in DOMAIN productPrices : productPrices[id] = LastPrice(id)

\* Days of month m (1..12) of proleptic Gregorian year y
GregorianDays(y, m) ==
    IF m = 2 THEN (IF (y % 4 = 0 /\ y % 100 # 0) \/ y % 400 = 0 THEN 29 ELSE 28)
    ELSE IF m \in {4, 6, 9, 11} THEN 30 ELSE 31

\* dd/mm/yyyy of day d of month m of year y, the year with or without leading zeros
DateTexts(y, m, d) ==
    LET zeros == IF y < 10 THEN "000" ELSE IF y < 100 THEN "00" ELSE IF y < 1000 THEN "0" ELSE ""
    IN  {PadStart2(d) \o "/" \o MonthText[m] \o "/" \o ToString(y),
         PadStart2(d) \o "/" \o MonthText[m] \o "/" \o zeros \o ToString(y)}

\* C8: the record with 0-based index i of a generateData call for month m of year y
\* is dated day (i mod daysInMonth(y, m)) + 1 of month m of year y.
C8_DateCycle ==
    pc = "returned" =>
        \A i \in 0..(Len(result) - 1) :
            result[i + 1]["Date"]
                \in DateTexts(call.year, call.month,
                              (i % GregorianDays(call.year, call.month)) + 1)

\* C8 for the years from 100 on
C8_DateCycleFullYears ==
    (pc = "returned" /\ call.year >= 100) =>
        \A i \in 0..(Len(result) - 1) :
            result[i + 1]["Date"]
                \in DateTexts(call.year, call.month,
                              (i % GregorianDays(call.year, call.month)) + 1)

C8_WitnessFullYears ==
    /\ pc = "returned"
    /\ call.year = 2024
    /\ call.month = 1
    /\ Len(result) = 35
    /\ result[32]["Date"] = "01/01/2024"
    /\ result[31]["Date"] = "31/01/2024"

C10_FormatOnceInOrder ==
    /\ csvCalls \in {0, 1}
    /\ csvCalls = 1 <=> response.kind = "csv"
    /\ response.kind = "csv" =>
          /\ MonthsDone = NumMonths
          /\ Len(response.lines) = 1 + 12 * CatalogSize
          /\ response.lines[1] = CsvHeaders
          /\ \A m \in 1..NumMonths : \A n \in 1..CatalogSize :
                LET line == response.lines[1 + (m - 1) * CatalogSize + n]
                IN  /\ Len(line) = 17
                    /\ line[12] = "\"" \o KeyText("PRI", m, n) \o "\""
                    /\ line[17] = "\"" \o KeyText("INV", m, n) \o "\""
                    /\ line[5] = "\"" \o productKeys[n] \o "\""

C10_Witness ==
    /\ response.kind = "csv"
    /\ productPrices = [P1 |-> 10 * Micro, P2 |-> 5500000]
    /\ Len(response.lines) = 25
    /\ response.lines[2][12] = "\"SUP1-PRI-01-2024-1\""
    /\ response.lines[3][12] = "\"SUP1-PRI-01-2024-2\""
    /\ response.lines[25][12] = "\"SUP1-PRI-12-2024-2\""

=============================================================================
